---------------------------- MODULE Spec2Model ----------------------------
(***************************************************************************)
(* Model of the URL matching engine of src/background/utils/tester.js:     *)
(* glob and match-pattern compilers, the script applicability test, the    *)
(* blacklist engine and its result cache.                                  *)
(*                                                                         *)
(* JavaScript strings are TLA+ strings.  The character "~" stands for a    *)
(* run of RunLen consecutive '~' characters, so that URLs long enough to   *)
(* fill the blacklist result cache stay short in the model; Length is the  *)
(* JavaScript .length of the string so denoted.                            *)
(***************************************************************************)
EXTENDS Integers, Sequences, FiniteSets, TLC

(***************************************************************************)
(* Bounds of the model.                                                    *)
(***************************************************************************)
RunLen == 60000

(***************************************************************************)
(* String primitives (String.prototype).                                   *)
(***************************************************************************)
Char(s, i) == SubSeq(s, i, i)

RECURSIVE Length(_)
Length(s) ==
  IF s = "" THEN 0
  ELSE (IF Head(s) = "~" THEN RunLen ELSE 1) + Length(Tail(s))

StartsWithAt(s, p, i) ==
  /\ i >= 1
  /\ i + Len(p) - 1 <= Len(s)
  /\ SubSeq(s, i, i + Len(p) - 1) = p

StartsWith(s, p) == StartsWithAt(s, p, 1)

EndsWith(s, p) == Len(p) <= Len(s) /\ StartsWithAt(s, p, Len(s) - Len(p) + 1)

\* 1-based index of the first occurrence of p in s at or after i, 0 if none
\* (String.prototype.indexOf returns that index minus one).
RECURSIVE IndexFrom(_, _, _)
IndexFrom(s, p, i) ==
  IF i + Len(p) - 1 > Len(s) THEN 0
  ELSE IF StartsWithAt(s, p, i) THEN i
  ELSE IndexFrom(s, p, i + 1)

Includes(s, p) == IndexFrom(s, p, 1) # 0

\* s.slice(from) with a 0-based, non-negative from
SliceFrom(s, from) == SubSeq(s, from + 1, Len(s))

\* s.slice(0, -n)
DropLast(s, n) == SubSeq(s, 1, Len(s) - n)

IsSpace(c) == c \in {" ", "\t", "\n", "\r"}

RECURSIVE TrimStart(_)
TrimStart(s) ==
  IF s # "" /\ IsSpace(Head(s)) THEN TrimStart(Tail(s)) ELSE s

RECURSIVE TrimEnd(_)
TrimEnd(s) ==
  IF s # "" /\ IsSpace(Char(s, Len(s))) THEN TrimEnd(DropLast(s, 1)) ELSE s

Trim(s) == TrimEnd(TrimStart(s))

\* s.split('\n')
RECURSIVE SplitLines(_)
SplitLines(s) ==
  LET i == IndexFrom(s, "\n", 1) IN
  IF i = 0 THEN <<s>>
  ELSE <<SubSeq(s, 1, i - 1)>> \o SplitLines(SubSeq(s, i + 1, Len(s)))

\* text.split(/\s/, 1)[0]: the text up to its first whitespace character
RECURSIVE FirstToken(_)
FirstToken(s) ==
  IF s = "" \/ IsSpace(Head(s)) THEN ""
  ELSE Head(s) \o FirstToken(Tail(s))

\* s.replace(p, r) with a string pattern: the first occurrence only
ReplaceFirst(s, p, r) ==
  LET i == IndexFrom(s, p, 1) IN
  IF i = 0 THEN s
  ELSE SubSeq(s, 1, i - 1) \o r \o SubSeq(s, i + Len(p), Len(s))

LowerChar(c) ==
  CASE c = "H" -> "h" [] c = "T" -> "t" [] c = "P" -> "p" [] c = "S" -> "s"
    [] OTHER -> c

RECURSIVE Lower(_)
Lower(s) == IF s = "" THEN "" ELSE LowerChar(Head(s)) \o Lower(Tail(s))


(***************************************************************************)
(* Regular expressions (the RegExp built-in), for the pattern syntax the   *)
(* compilers below generate plus plain explicit patterns: literal          *)
(* characters, escaped characters, `.', the lazy wildcard `.*?', `^', `$'  *)
(* and the four fixed groups.  A pattern is tokenised and matched by       *)
(* backtracking in the priority order of the RegExp semantics, so that the *)
(* first match found, and its capture, are those RegExp returns.           *)
(***************************************************************************)
RE_STR_ANY == "(?:|.*?\\.)"
RE_STR_TLD == "((?:\\.\\w+)+)"
RE_STR_END_QH == "(?:[?#]|$)"
RE_STR_END_H == "(?:#|$)"

WordChars ==
  { "a", "b", "c", "d", "e", "f", "g", "h", "i", "j", "k", "l", "m",
    "n", "o", "p", "q", "r", "s", "t", "u", "v", "w", "x", "y", "z",
    "A", "B", "C", "D", "E", "F", "G", "H", "I", "J", "K", "L", "M",
    "N", "O", "P", "Q", "R", "S", "T", "U", "V", "W", "X", "Y", "Z",
    "0", "1", "2", "3", "4", "5", "6", "7", "8", "9", "_" }

\* the characters str2RE escapes, and `/' which RegExp accepts escaped
EscapableChars ==
  { ".", "?", "+", "[", "]", "{", "}", "(", ")", "|", "^", "$", "*", "/",
    "\\" }

RECURSIVE Tokenize(_, _)
Tokenize(p, i) ==
  IF i > Len(p) THEN <<>>
  ELSE IF StartsWithAt(p, RE_STR_ANY, i)
    THEN << <<"pre", "">> >> \o Tokenize(p, i + Len(RE_STR_ANY))
  ELSE IF StartsWithAt(p, RE_STR_TLD, i)
    THEN << <<"tld", "">> >> \o Tokenize(p, i + Len(RE_STR_TLD))
  ELSE IF StartsWithAt(p, RE_STR_END_QH, i)
    THEN << <<"endqh", "">> >> \o Tokenize(p, i + Len(RE_STR_END_QH))
  ELSE IF StartsWithAt(p, RE_STR_END_H, i)
    THEN << <<"endh", "">> >> \o Tokenize(p, i + Len(RE_STR_END_H))
  ELSE IF StartsWithAt(p, ".*?", i)
    THEN << <<"any", "">> >> \o Tokenize(p, i + 3)
  ELSE IF Char(p, i) = "\\"
    THEN IF i < Len(p) /\ Char(p, i + 1) \in EscapableChars
           THEN << <<"lit", Char(p, i + 1)>> >> \o Tokenize(p, i + 2)
           ELSE << <<"err", "">> >>
  ELSE IF Char(p, i) = "^" THEN << <<"bol", "">> >> \o Tokenize(p, i + 1)
  ELSE IF Char(p, i) = "$" THEN << <<"eol", "">> >> \o Tokenize(p, i + 1)
  ELSE IF Char(p, i) = "." THEN << <<"dot", "">> >> \o Tokenize(p, i + 1)
  ELSE IF Char(p, i) \in {"(", ")", "[", "*", "+", "?", "|"}
    THEN << <<"err", "">> >>
  ELSE << <<"lit", Char(p, i)>> >> \o Tokenize(p, i + 1)

\* new RegExp(p) throws a SyntaxError
IsMalformed(p) ==
  LET toks == Tokenize(p, 1) IN
  \E j \in 1..Len(toks) : toks[j][1] = "err"

\* RegExp.prototype.source: the pattern with `/' escaped, (?:) when empty
RECURSIVE EscapeSlashes(_, _)
EscapeSlashes(p, i) ==
  IF i > Len(p) THEN ""
  ELSE IF Char(p, i) = "\\" /\ i < Len(p)
    THEN SubSeq(p, i, i + 1) \o EscapeSlashes(p, i + 2)
  ELSE IF Char(p, i) = "/" THEN "\\/" \o EscapeSlashes(p, i + 1)
  ELSE Char(p, i) \o EscapeSlashes(p, i + 1)

Source(p) == IF p = "" THEN "(?:)" ELSE EscapeSlashes(p, 1)

NoMatch == [ok |-> FALSE, cap |-> ""]

\* the first alternative when it matches, else the second
FirstOk(r, alt) == IF r.ok THEN r ELSE alt

\* the match of what follows a capturing group, with the group's capture
WithCapture(r, cap) == IF r.ok THEN [ok |-> TRUE, cap |-> cap] ELSE NoMatch

IsLineEnd(c) == c \in {"\n", "\r"}

\* the largest e >= pos such that text[pos..e-1] consists of `.' and word
\* characters only
RECURSIVE DomainRunEnd(_, _)
DomainRunEnd(text, pos) ==
  IF pos <= Len(text) /\ (Char(text, pos) = "." \/ Char(text, pos) \in WordChars)
    THEN DomainRunEnd(text, pos + 1)
    ELSE pos

\* text[pos..e-1] matches (?:\.\w+)+
IsLabels(text, pos, e) ==
  /\ e > pos + 1
  /\ Char(text, pos) = "."
  /\ Char(text, e - 1) # "."
  /\ \A j \in pos..(e - 1) :
       /\ Char(text, j) = "." \/ Char(text, j) \in WordChars
       /\ (Char(text, j) = "." /\ j > pos) => Char(text, j - 1) # "."

RECURSIVE MatchHere(_, _, _, _)
RECURSIVE TryAny(_, _, _, _)
RECURSIVE TryPre(_, _, _, _)
RECURSIVE TryTld(_, _, _, _, _)

\* the tokens from index ti on match text at position pos
MatchHere(toks, ti, text, pos) ==
  IF ti > Len(toks) THEN [ok |-> TRUE, cap |-> ""]
  ELSE LET t == toks[ti][1]
           c == toks[ti][2]
       IN
    CASE t = "lit" ->
           IF pos <= Len(text) /\ Char(text, pos) = c
             THEN MatchHere(toks, ti + 1, text, pos + 1) ELSE NoMatch
      [] t = "dot" ->
           IF pos <= Len(text) /\ ~IsLineEnd(Char(text, pos))
             THEN MatchHere(toks, ti + 1, text, pos + 1) ELSE NoMatch
      [] t = "bol" ->
           IF pos = 1 THEN MatchHere(toks, ti + 1, text, pos) ELSE NoMatch
      [] t = "eol" ->
           IF pos = Len(text) + 1
             THEN MatchHere(toks, ti + 1, text, pos) ELSE NoMatch
      [] t = "any" -> TryAny(toks, ti, text, pos)
      [] t = "pre" ->
           FirstOk(MatchHere(toks, ti + 1, text, pos),
                   TryPre(toks, ti, text, pos))
      [] t = "tld" ->
           TryTld(toks, ti, text, pos, DomainRunEnd(text, pos))
      [] t = "endqh" ->
           FirstOk(IF pos <= Len(text) /\ Char(text, pos) \in {"?", "#"}
                     THEN MatchHere(toks, ti + 1, text, pos + 1)
                     ELSE NoMatch,
                   IF pos = Len(text) + 1
                     THEN MatchHere(toks, ti + 1, text, pos) ELSE NoMatch)
      [] t = "endh" ->
           FirstOk(IF pos <= Len(text) /\ Char(text, pos) = "#"
                     THEN MatchHere(toks, ti + 1, text, pos + 1)
                     ELSE NoMatch,
                   IF pos = Len(text) + 1
                     THEN MatchHere(toks, ti + 1, text, pos) ELSE NoMatch)
      [] OTHER -> NoMatch

\* .*? : the shortest extension first
TryAny(toks, ti, text, k) ==
  FirstOk(MatchHere(toks, ti + 1, text, k),
          IF k <= Len(text) /\ ~IsLineEnd(Char(text, k))
            THEN TryAny(toks, ti, text, k + 1)
            ELSE NoMatch)

\* the second alternative of (?:|.*?\.) : the nearest `.' first
TryPre(toks, ti, text, k) ==
  IF k > Len(text) \/ IsLineEnd(Char(text, k)) THEN NoMatch
  ELSE FirstOk(IF Char(text, k) = "."
                 THEN MatchHere(toks, ti + 1, text, k + 1) ELSE NoMatch,
               TryPre(toks, ti, text, k + 1))

\* ((?:\.\w+)+) is greedy: the longest label sequence first
TryTld(toks, ti, text, pos, e) ==
  IF e <= pos + 1 THEN NoMatch
  ELSE FirstOk(WithCapture(IF IsLabels(text, pos, e)
                             THEN MatchHere(toks, ti + 1, text, e)
                             ELSE NoMatch,
                           SubSeq(text, pos, e - 1)),
               TryTld(toks, ti, text, pos, e - 1))

RECURSIVE SearchFrom(_, _, _)
SearchFrom(toks, text, start) ==
  IF start > Len(text) + 1 THEN NoMatch
  ELSE FirstOk(MatchHere(toks, 1, text, start),
               SearchFrom(toks, text, start + 1))

\* text.match(new RegExp(p)): whether it matches and the first capture
RegExpExec(p, text) == SearchFrom(Tokenize(p, 1), text, 1)

\* new RegExp(p).test(text)
RegExpTest(p, text) == RegExpExec(p, text).ok


(***************************************************************************)
(* JavaScript values returned by the public functions.                     *)
(***************************************************************************)
Undefined == [type |-> "undefined", b |-> FALSE, s |-> ""]
Bool(b) == [type |-> "boolean", b |-> b, s |-> ""]
Str(s) == [type |-> "string", b |-> FALSE, s |-> s]
\* the call did not return: it threw (TypeError or SyntaxError)
Thrown == [type |-> "throw", b |-> FALSE, s |-> ""]

(***************************************************************************)
(* Suffix resolver (#/common/tld): getPublicSuffix over a small list.      *)
(***************************************************************************)
PublicSuffixes == { "com", "org", "uk", "co.uk" }

RECURSIVE getPublicSuffix(_)
getPublicSuffix(domain) ==
  IF domain \in PublicSuffixes THEN domain
  ELSE LET i == IndexFrom(domain, ".", 1) IN
       IF i = 0 THEN domain
       ELSE getPublicSuffix(SubSeq(domain, i + 1, Len(domain)))

(***************************************************************************)
(* Pattern Cache (./cache): a map from key to value with get, put, hit.    *)
(* A value is the outcome 1 / -1 of a regex test, or a compiled tester.    *)
(* entries is the map; calls lists the calls made on the cache, each as    *)
(* <<operation, key>>, since the operation in progress began.              *)
(***************************************************************************)
CacheHas(c, key) == key \in DOMAIN c.entries

\* the call cache.get(key): what it returns is CacheValue(c, key)
CacheGet(c, key) ==
  [entries |-> c.entries, calls |-> Append(c.calls, <<"get", key>>)]

CacheValue(c, key) == c.entries[key]

CachePut(c, key, value) ==
  [entries |-> [k \in (DOMAIN c.entries) \cup {key} |->
                  IF k = key THEN value ELSE c.entries[k]],
   calls |-> Append(c.calls, <<"put", key>>)]

\* cache.hit(key): the value is left as it is
CacheHit(c, key) ==
  [entries |-> c.entries, calls |-> Append(c.calls, <<"hit", key>>)]

EmptyCache == [entries |-> [k \in {} |-> 0], calls |-> <<>>]

\* the cache as an operation finds it: no call made yet
NoCalls(c) == [entries |-> c.entries, calls |-> <<>>]

(***************************************************************************)
(* Compiled testers.  A tester is the closure the compiler returns, kept   *)
(* as the values it captured:                                              *)
(*   "re"    tstr => testRegExp(re, tstr), re = new RegExp(re)             *)
(*   "tld"   the .tld glob closure over reTldStr (field re)                *)
(*   "all"   () => true         "none"  () => false                        *)
(*   "match" the scheme://host/path closure over ruleParts[1] (scheme),    *)
(*           hostMatcher's rule (host) and re (hostRe), pathMatcher's      *)
(*           reRule (pathRe)                                               *)
(*   "undefined"  no function at all: the `test' property of `true'        *)
(*   "throw" the compiler threw a SyntaxError                              *)
(***************************************************************************)
Tester(kind, re, scheme, host, hostRe, pathRe) ==
  [kind |-> kind, re |-> re, scheme |-> scheme, host |-> host,
   hostRe |-> hostRe, pathRe |-> pathRe]

NoTester == Tester("undefined", "", "", "", "", "")
CompileError == Tester("throw", "", "", "", "", "")

CacheNum(n) == [n |-> n, tester |-> NoTester]
CacheTester(t) == [n |-> 0, tester |-> t]

\* the outcome of a test, the Pattern Cache afterwards, and whether the
\* call threw
Outcome(res, c) == [res |-> res, cache |-> c, threw |-> FALSE]
Throws(c) == [res |-> FALSE, cache |-> c, threw |-> TRUE]

\* testRegExp after the cache miss: res is 1 or -1
testRegExpMiss(key, res, c) == Outcome(res = 1, CachePut(c, key, CacheNum(res)))

\* testRegExp once its key is computed
testRegExpKey(key, re, text, c) ==
  IF CacheHas(c, key)
    THEN Outcome(CacheValue(c, key).n = 1, c)
    ELSE testRegExpMiss(key, IF RegExpTest(re, text) THEN 1 ELSE -1, c)

\* const key = ...; let res = cache.get(key)
testRegExpGet(key, re, text, c) ==
  testRegExpKey(key, re, text, CacheGet(c, key))

\* testRegExp(re, text) in the Pattern Cache state c
testRegExp(re, text, c) ==
  testRegExpGet("re-test:" \o Source(re) \o ":" \o text, re, text, c)

RECURSIVE str2RE(_)
str2RE(str) ==
  IF str = "" THEN ""
  ELSE LET c == Head(str) IN
       (IF c \in {".", "?", "+", "[", "]", "{", "}", "(", ")", "|", "^", "$"}
          THEN "\\" \o c
        ELSE IF c = "*" THEN ".*?"
        ELSE c) \o str2RE(Tail(str))

\* autoReg(str), with ready = tld.isReady() at the time of the call
autoReg(str, ready) ==
  IF Length(str) > 1 /\ Head(str) = "/" /\ Char(str, Len(str)) = "/"
    THEN LET inner == SubSeq(str, 2, Len(str) - 1) IN
         IF IsMalformed(inner) THEN CompileError
         ELSE Tester("re", inner, "", "", "", "")
  ELSE LET reStr == str2RE(str) IN
       IF ready /\ Includes(str, ".tld/")
         THEN Tester("tld", ReplaceFirst(reStr, "\\.tld/", RE_STR_TLD \o "/"),
                     "", "", "", "")
         ELSE Tester("re", "^" \o reStr \o "$", "", "", "", "")

\* the captured label sequence, less its leading dot, is a public suffix
IsPublicSuffix(tldStr) ==
  LET suffix == SliceFrom(tldStr, 1) IN getPublicSuffix(suffix) = suffix

\* the closure autoReg returns for a .tld glob, matches = tstr.match(reTldStr)
TldGlobResult(matches) == IF matches.ok THEN IsPublicSuffix(matches.cap) ELSE FALSE

TestTldGlob(reTldStr, tstr) == TldGlobResult(RegExpExec(reTldStr, tstr))

RE_HTTP_OR_HTTPS(data) == Lower(data) \in {"http", "https"}

matchScheme(rule, data) ==
  IF rule = data THEN TRUE
  ELSE rule \in {"*", "http*"} /\ RE_HTTP_OR_HTTPS(data)

\* mutant of hostMatcher: the `*.' prefix demands a subdomain
hostMatcherSubdomainOnly(rule, ready) ==
  LET wild == StartsWith(rule, "*.")
      tldOn == ready /\ EndsWith(rule, ".tld")
      base0 == IF wild THEN SliceFrom(rule, 2) ELSE rule
      base == IF tldOn THEN DropLast(base0, 4) ELSE base0
      prefix == IF wild THEN ".*?\\." ELSE ""
      suffix == IF tldOn THEN RE_STR_TLD ELSE ""
  IN "^" \o prefix \o str2RE(base) \o suffix \o "$"

\* the regular expression hostMatcher(rule) builds
hostMatcher(rule, ready) ==
  LET wild == StartsWith(rule, "*.")
      tldOn == ready /\ EndsWith(rule, ".tld")
      base0 == IF wild THEN SliceFrom(rule, 2) ELSE rule
      base == IF tldOn THEN DropLast(base0, 4) ELSE base0
      prefix == IF wild THEN RE_STR_ANY ELSE ""
      suffix == IF tldOn THEN RE_STR_TLD ELSE ""
  IN "^" \o prefix \o str2RE(base) \o suffix \o "$"

\* the closure hostMatcher returns after its two exact tests,
\* matches = data.match(re)
HostResult(matches) ==
  IF matches.ok
    THEN IF matches.cap = "" THEN TRUE ELSE IsPublicSuffix(matches.cap)
    ELSE FALSE

\* the closure hostMatcher returns, over its rule and re
TestHost(rule, re, data) ==
  IF rule = "*" THEN TRUE
  ELSE IF rule = data THEN TRUE
  ELSE HostResult(RegExpExec(re, data))

\* the regular expression pathMatcher(rule) builds
pathMatcher(rule) ==
  LET iHash == IndexFrom(rule, "#", 1) - 1
      iQuery0 == IndexFrom(rule, "?", 1) - 1
      iQuery == IF iQuery0 > iHash THEN -1 ELSE iQuery0
      strRe == str2RE(rule)
  IN IF iHash < 0
       THEN IF iQuery < 0 THEN "^" \o strRe \o RE_STR_END_QH
            ELSE "^" \o strRe \o RE_STR_END_H
       ELSE strRe

\* str.match(RE_MATCH_PARTS), RE_MATCH_PARTS = /(.*?):\/\/([^/]*)\/(.*)/ :
\* the first "://" that has a "/" after it splits scheme, host and path
\* (for a str of one line)
RECURSIVE MatchPartsFrom(_, _)
MatchPartsFrom(str, i) ==
  LET k == IndexFrom(str, "://", i) IN
  IF k = 0 THEN [ok |-> FALSE, scheme |-> "", host |-> "", path |-> ""]
  ELSE LET j == IndexFrom(str, "/", k + 3) IN
       IF j = 0 THEN MatchPartsFrom(str, k + 1)
       ELSE [ok |-> TRUE,
             scheme |-> SubSeq(str, 1, k - 1),
             host |-> SubSeq(str, k + 3, j - 1),
             path |-> SubSeq(str, j + 1, Len(str))]

RE_MATCH_PARTS(str) == MatchPartsFrom(str, 1)

\* mutant of matchTesterParts: the host is compiled as if the suffix
\* resolver were never ready
matchTesterPartsUnready(ruleParts, ready) ==
  IF ruleParts.ok
    THEN Tester("match", "", ruleParts.scheme, ruleParts.host,
                hostMatcher(ruleParts.host, FALSE),
                pathMatcher(ruleParts.path))
    ELSE Tester("none", "", "", "", "", "")

\* matchTester(rule) once ruleParts = rule.match(RE_MATCH_PARTS) is known
matchTesterParts(ruleParts, ready) ==
  IF ruleParts.ok
    THEN Tester("match", "", ruleParts.scheme, ruleParts.host,
                hostMatcher(ruleParts.host, ready),
                pathMatcher(ruleParts.path))
    ELSE Tester("none", "", "", "", "", "")

matchTester(rule, ready) ==
  IF rule = "<all_urls>" THEN Tester("all", "", "", "", "", "")
  ELSE matchTesterParts(RE_MATCH_PARTS(rule), ready)

\* the closure matchTester returns, parts = url.match(RE_MATCH_PARTS)
TestMatchParts(t, parts, c) ==
  IF /\ parts.ok
     /\ matchScheme(t.scheme, parts.scheme)
     /\ TestHost(t.host, t.hostRe, parts.host)
    THEN testRegExp(t.pathRe, parts.path, c)
    ELSE Outcome(FALSE, c)

\* tester.test(url): it throws when `test' is not a function
Test(t, url, c) ==
  CASE t.kind = "re" -> testRegExp(t.re, url, c)
    [] t.kind = "tld" -> Outcome(TestTldGlob(t.re, url), c)
    [] t.kind = "all" -> Outcome(TRUE, c)
    [] t.kind = "none" -> Outcome(FALSE, c)
    [] t.kind = "match" -> TestMatchParts(t, RE_MATCH_PARTS(url), c)
    [] OTHER -> Throws(c)

RECURSIVE testGlobFrom(_, _, _, _, _)

\* the end of the callback of testGlob: r is the outcome of re.test(url)
testGlobNext(url, rules, i, ready, r) ==
  IF r.res THEN r ELSE testGlobFrom(url, rules, i + 1, r.cache, ready)

\* mutant of testGlobRule: the tester is put whether or not it was cached
testGlobRulePutAlways(url, rules, i, c, ready, key, re) ==
  IF re.kind = "throw" THEN Throws(c)
  ELSE testGlobNext(url, rules, i, ready,
         Test(re, url, CachePut(c, key, CacheTester(re))))

\* the callback of testGlob once re is fetched or compiled
testGlobRule(url, rules, i, c, ready, key, re) ==
  IF re.kind = "throw" THEN Throws(c)
  ELSE testGlobNext(url, rules, i, ready,
         Test(re, url,
              IF CacheHas(c, key) THEN CacheHit(c, key)
              ELSE CachePut(c, key, CacheTester(re))))

\* let re = cache.get(key); if (!re) re = autoReg(rule)
GlobTester(rule, c, ready) ==
  IF CacheHas(c, "re:" \o rule) THEN CacheValue(c, "re:" \o rule).tester
  ELSE autoReg(rule, ready)

\* rules.some(...) of testGlob(url, rules) from index i on
testGlobFrom(url, rules, i, c, ready) ==
  IF i > Len(rules) THEN Outcome(FALSE, c)
  ELSE testGlobRule(url, rules, i, CacheGet(c, "re:" \o rules[i]), ready,
                    "re:" \o rules[i], GlobTester(rules[i], c, ready))

testGlob(url, rules, c, ready) == testGlobFrom(url, rules, 1, c, ready)

RECURSIVE testMatchFrom(_, _, _, _, _)

testMatchNext(url, rules, i, ready, r) ==
  IF r.res THEN r ELSE testMatchFrom(url, rules, i + 1, r.cache, ready)

testMatchRule(url, rules, i, c, ready, key, matcher) ==
  testMatchNext(url, rules, i, ready,
    Test(matcher, url,
         IF CacheHas(c, key) THEN CacheHit(c, key)
         ELSE CachePut(c, key, CacheTester(matcher))))

\* let matcher = cache.get(key); if (!matcher) matcher = matchTester(rule)
MatchTester(rule, c, ready) ==
  IF CacheHas(c, "match:" \o rule) THEN CacheValue(c, "match:" \o rule).tester
  ELSE matchTester(rule, ready)

\* rules.some(...) of testMatch(url, rules) from index i on
testMatchFrom(url, rules, i, c, ready) ==
  IF i > Len(rules) THEN Outcome(FALSE, c)
  ELSE testMatchRule(url, rules, i, CacheGet(c, "match:" \o rules[i]), ready,
                     "match:" \o rules[i], MatchTester(rules[i], c, ready))

testMatch(url, rules, c, ready) == testMatchFrom(url, rules, 1, c, ready)

\* mutant of AndList: the metadata list is taken whatever the flag
AndListAlways(flag, list) == [truthy |-> TRUE, list |-> list]

\* flag && list: the list when the flag is set, else a falsy value
AndList(flag, list) == [truthy |-> flag, list |-> IF flag THEN list ELSE <<>>]

\* mergeLists(a, b) for the two arguments of each call in testScript:
\* a is `flag && list', b a list
mergeLists(a, b) ==
  (IF a.truthy THEN a.list ELSE <<>>) \o b

\* mutant of MatchAllByDefault: one empty list is enough
MatchAllIfEitherEmpty(mat, inc) == Len(mat) = 0 \/ Len(inc) = 0

\* let ok = !mat.length && !inc.length
MatchAllByDefault(mat, inc) == Len(mat) = 0 /\ Len(inc) = 0

\* ok = ok && !t, t the outcome of a test of the exclusion rules
Negated(t) == [res |-> ~t.res /\ ~t.threw, cache |-> t.cache, threw |-> t.threw]

\* ok = ok && !testGlob(url, exc), r the outcome so far
testScriptExclude(url, exc, ready, r) ==
  IF ~r.res \/ r.threw THEN r
  ELSE Negated(testGlob(url, exc, r.cache, ready))

\* ok = ok && !testMatch(url, excMat)
testScriptExcludeMatch(url, excMat, ready, r) ==
  IF ~r.res \/ r.threw THEN r
  ELSE Negated(testMatch(url, excMat, r.cache, ready))

\* ok = ok || testGlob(url, inc)
testScriptInclude(url, inc, ready, r) ==
  IF r.res \/ r.threw THEN r
  ELSE testGlob(url, inc, r.cache, ready)

\* let ok = !mat.length && !inc.length; ok = ok || testMatch(url, mat)
testScriptMatch(url, mat, inc, c, ready) ==
  IF MatchAllByDefault(mat, inc) THEN Outcome(TRUE, c)
  ELSE testMatch(url, mat, c, ready)

testScript(url, script, c, ready) ==
  LET custom == script.custom
      meta == script.meta
      mat == mergeLists(AndList(custom.origMatch, meta.match), custom.match)
      inc == mergeLists(AndList(custom.origInclude, meta.include),
                        custom.include)
      exc == mergeLists(AndList(custom.origExclude, meta.exclude),
                        custom.exclude)
      excMat == mergeLists(AndList(custom.origExcludeMatch, meta.excludeMatch),
                           custom.excludeMatch)
  IN testScriptExclude(url, exc, ready,
       testScriptExcludeMatch(url, excMat, ready,
         testScriptInclude(url, inc, ready,
           testScriptMatch(url, mat, inc, c, ready))))

(***************************************************************************)
(* Blacklist engine.                                                       *)
(***************************************************************************)
MAX_BL_CACHE_LENGTH == 100000

\* a JavaScript number that may be NaN
Num(n) == [nan |-> FALSE, n |-> n]
NaN == [nan |-> TRUE, n |-> 0]

\* the argument of resetBlacklist: null, a string, or a legacy array
Null == [kind |-> "null", s |-> "", a |-> <<>>]
StrList(s) == [kind |-> "string", s |-> s, a |-> <<>>]
ArrList(a) == [kind |-> "array", s |-> "", a |-> a]

\* mutant of IsSkipped: `#' lines are kept as rules
IsSkippedOnlyEmpty(text) == text = ""

\* !text || text.startsWith('#')
IsSkipped(text) == text = "" \/ StartsWith(text, "#")

\* mutant of Reject: `@exclude' taken for a whitelist mode as well
RejectNotExclude(mode) == mode \notin {"@include", "@match", "@exclude"}

\* reject = mode !== '@include' && mode !== '@match', mode "" when absent
Reject(mode) == mode # "@include" /\ mode # "@match"

\* const { test } = mode === '@include'
\*   || mode === '@exclude' && autoReg(rule)
\*   || !mode && !rule.includes('/') && matchTester(`*://${rule}/*`)
\*   || matchTester(rule);
\* mode is "" when the text has none (mode = false)
RuleTester(mode, rule, ready) ==
  IF mode = "@include" THEN NoTester
  ELSE IF mode = "@exclude" THEN autoReg(rule, ready)
  ELSE matchTester(IF mode = "" /\ ~Includes(rule, "/")
                     THEN "*://" \o rule \o "/*"
                     ELSE rule,
                   ready)

\* return { reject, test, text }
ParsedRule(reject, test, text) ==
  [skip |-> FALSE, threw |-> test.kind = "throw",
   rule |-> [reject |-> reject, test |-> test, text |-> text]]

\* the .map() callback of resetBlacklist after text = text.trim(): a null
\* (skip) for a line that is dropped, else the rule; threw when the
\* compiler throws
ParseText(text, ready) ==
  IF IsSkipped(text)
    THEN [skip |-> TRUE, threw |-> FALSE,
          rule |-> [reject |-> FALSE, test |-> NoTester, text |-> ""]]
  ELSE
    LET mode == IF StartsWith(text, "@") THEN FirstToken(text) ELSE ""
        rule == IF mode # "" THEN Trim(SliceFrom(text, Len(mode) + 1))
                ELSE text
    IN ParsedRule(Reject(mode), RuleTester(mode, rule, ready), text)

ParseRule(line, ready) == ParseText(Trim(line), ready)

Lines(list) == IF list.kind = "array" THEN list.a ELSE SplitLines(list.s)

RECURSIVE ParseRules(_, _, _)

\* r is the parse of line i
ParseRulesNext(r, lines, i, ready) ==
  IF r.threw THEN [threw |-> TRUE, rules |-> <<>>]
  ELSE LET rest == ParseRules(lines, i + 1, ready) IN
       IF rest.threw THEN rest
       ELSE [threw |-> FALSE,
             rules |-> (IF r.skip THEN <<>> ELSE <<r.rule>>) \o rest.rules]

\* .map(...).filter(Boolean) over the lines from index i on
ParseRules(lines, i, ready) ==
  IF i > Len(lines) THEN [threw |-> FALSE, rules |-> <<>>]
  ELSE ParseRulesNext(ParseRule(lines[i], ready), lines, i, ready)

\* mutant of resetBlacklistParsed: the result cache is cleared only when
\* the rule list changes
resetBlacklistKeepCache(parsed, rules, bc, size) ==
  IF parsed.threw
    THEN [val |-> Thrown, rules |-> rules, blCache |-> bc,
          blCacheSize |-> size]
    ELSE [val |-> Undefined, rules |-> parsed.rules,
          blCache |-> IF parsed.rules = rules THEN bc ELSE <<>>,
          blCacheSize |-> IF parsed.rules = rules THEN size ELSE Num(0)]

\* mutant of resetBlacklistParsed: a rule whose text the previous list
\* held keeps the tester compiled for it then
resetBlacklistReuse(parsed, rules, bc, size) ==
  IF parsed.threw
    THEN [val |-> Thrown, rules |-> rules, blCache |-> bc,
          blCacheSize |-> size]
    ELSE [val |-> Undefined,
          rules |-> [i \in 1..Len(parsed.rules) |->
                       IF \E j \in 1..Len(rules) :
                            rules[j].text = parsed.rules[i].text
                         THEN rules[CHOOSE j \in 1..Len(rules) :
                                      rules[j].text = parsed.rules[i].text]
                         ELSE parsed.rules[i]],
          blCache |-> <<>>, blCacheSize |-> Num(0)]

\* mutant of resetBlacklistParsed: the result cache is cleared before the
\* lines are parsed
resetBlacklistClearFirst(parsed, rules, bc, size) ==
  IF parsed.threw
    THEN [val |-> Thrown, rules |-> rules, blCache |-> <<>>,
          blCacheSize |-> Num(0)]
    ELSE [val |-> Undefined, rules |-> parsed.rules, blCache |-> <<>>,
          blCacheSize |-> Num(0)]

\* resetBlacklist once the lines are parsed: the assignments to
\* blacklistRules, blCache and blCacheSize, none of them made on a throw
resetBlacklistParsed(parsed, rules, bc, size) ==
  IF parsed.threw
    THEN [val |-> Thrown, rules |-> rules, blCache |-> bc,
          blCacheSize |-> size]
    ELSE [val |-> Undefined, rules |-> parsed.rules, blCache |-> <<>>,
          blCacheSize |-> Num(0)]

\* resetBlacklist(list): option is what getOption('blacklist') returns;
\* rules, bc, size are blacklistRules, blCache, blCacheSize before the call
resetBlacklist(list, option, ready, rules, bc, size) ==
  resetBlacklistParsed(
    ParseRules(Lines(IF list.kind = "null" THEN option ELSE list), 1, ready),
    rules, bc, size)

\* blCache[k].length of a cached verdict: undefined for false
ValueLength(v) == IF v.type = "string" THEN Num(Length(v.s)) ELSE NaN

Sub(x, y) == IF x.nan \/ y.nan THEN NaN ELSE Num(x.n - y.n)

\* mutant of EvictSome: the newest entry goes first
RECURSIVE EvictSomeNewestFirst(_, _)
EvictSomeNewestFirst(bc, size) ==
  IF bc = <<>> THEN [blCache |-> bc, blCacheSize |-> size]
  ELSE LET size2 == Sub(size, ValueLength(bc[Len(bc)].v))
           bc2 == SubSeq(bc, 1, Len(bc) - 1)
       IN IF ~size2.nan /\ 4 * size2.n < MAX_BL_CACHE_LENGTH * 3
            THEN [blCache |-> bc2, blCacheSize |-> size2]
            ELSE EvictSomeNewestFirst(bc2, size2)

\* the .some() loop of updateBlacklistCache over the keys not yet visited,
\* which are the entries of bc in their enumeration order
RECURSIVE EvictSome(_, _)
EvictSome(bc, size) ==
  IF bc = <<>> THEN [blCache |-> bc, blCacheSize |-> size]
  ELSE LET size2 == Sub(size, ValueLength(bc[1].v))
           bc2 == Tail(bc)
       IN IF ~size2.nan /\ 4 * size2.n < MAX_BL_CACHE_LENGTH * 3
            THEN [blCache |-> bc2, blCacheSize |-> size2]
            ELSE EvictSome(bc2, size2)

updateBlacklistCache(key, value, bc, size) ==
  LET bc1 == Append(bc, [k |-> key, v |-> value])
      size1 == IF size.nan THEN NaN ELSE Num(size.n + Length(key))
  IN IF ~size1.nan /\ size1.n > MAX_BL_CACHE_LENGTH
       THEN EvictSome(bc1, size1)
       ELSE [blCache |-> bc1, blCacheSize |-> size1]

\* blCache[url]: the index of the entry, 0 when undefined
RECURSIVE Lookup(_, _, _)
Lookup(bc, url, i) ==
  IF i > Len(bc) THEN 0
  ELSE IF bc[i].k = url THEN i
  ELSE Lookup(bc, url, i + 1)

RECURSIVE FindRule(_, _, _, _)

\* r is the outcome of test(url) for rule i
FindRuleNext(rules, i, url, r) ==
  IF r.threw THEN [idx |-> 0, cache |-> r.cache, threw |-> TRUE]
  ELSE IF r.res THEN [idx |-> i, cache |-> r.cache, threw |-> FALSE]
  ELSE FindRule(rules, i + 1, url, r.cache)

\* blacklistRules.find(({ test }) => test(url)) from index i on: the index
\* found (0 when none), the Pattern Cache afterwards, whether a test threw
FindRule(rules, i, url, c) ==
  IF i > Len(rules) THEN [idx |-> 0, cache |-> c, threw |-> FALSE]
  ELSE FindRuleNext(rules, i, url, Test(rules[i].test, url, c))

\* res = rule?.reject && rule.text
Verdict(rules, idx) ==
  IF idx = 0 THEN Undefined
  ELSE IF rules[idx].reject THEN Str(rules[idx].text)
  ELSE Bool(FALSE)

\* res || false
OrFalse(res) == IF res.type = "string" /\ res.s # "" THEN res ELSE Bool(FALSE)

\* testBlacklist when blCache[url] is undefined: f is the outcome of find
testBlacklistMiss(f, url, rules, bc, size) ==
  IF f.threw
    THEN [val |-> Thrown, evaluated |-> TRUE, blCache |-> bc,
          blCacheSize |-> size, cache |-> f.cache]
    ELSE LET res == Verdict(rules, f.idx)
             u == updateBlacklistCache(url, OrFalse(res), bc, size)
         IN [val |-> res, evaluated |-> TRUE, blCache |-> u.blCache,
             blCacheSize |-> u.blCacheSize, cache |-> f.cache]

\* testBlacklist(url): the value returned and the state afterwards;
\* evaluated tells whether the rule list was evaluated
testBlacklist(url, rules, bc, size, c) ==
  LET hit == Lookup(bc, url, 1) IN
  IF hit # 0
    THEN [val |-> bc[hit].v, evaluated |-> FALSE, blCache |-> bc,
          blCacheSize |-> size, cache |-> c]
    ELSE testBlacklistMiss(FindRule(rules, 1, url, c), url, rules, bc, size)

(***************************************************************************)
(* State.                                                                  *)
(***************************************************************************)
VARIABLES
  blacklistRules,  \* the ordered rule list
  blCache,         \* blacklist result cache: entries [k, v] in key order
  blCacheSize,     \* its running total
  cache,           \* the Pattern Cache
  tldReady,        \* tld.isReady()
  ret,             \* the last call: its name, arguments and returned value
  openers,         \* tabs.js: the map from a tab id to its opener's id
  tabStatus,       \* the browser: "none", "open", "closing" or "removed"
  tabOpenCalls,    \* the tabOpen calls made: opener, position, tab id
  sent             \* the messages passed to browser.tabs.sendMessage

testerVars == <<blacklistRules, blCache, blCacheSize, cache, tldReady, ret>>
tabVars == <<openers, tabStatus, tabOpenCalls, sent>>
vars == <<blacklistRules, blCache, blCacheSize, cache, tldReady, ret,
          openers, tabStatus, tabOpenCalls, sent>>

\* the number of tabOpen calls made
MaxTabOpens == 2

TabIds == 1..MaxTabOpens

\* the tabs the calls come from
OpenerIds == { 11, 12 }

\* tabs.js after module initialisation: const openers = {}
InitTabs ==
  /\ openers = [id \in {} |-> 0]
  /\ tabStatus = [id \in TabIds |-> "none"]
  /\ tabOpenCalls = <<>>
  /\ sent = <<>>

(***************************************************************************)
(* Inputs of the blacklist specification.                                  *)
(***************************************************************************)
Blacklists ==
  { StrList(""),
    StrList("@exclude http://a.com/*\nhttp://a.com/bad"),
    StrList("@include http://a.com/*\nhttp://a.com/bad"),
    ArrList(<<"  # note", "", " @match  *://a.com/~* ", "*://*/*">>),
    Null }

BlacklistOption == StrList("# blocked\n\n  b.org  ")

Urls == { "http://a.com/bad", "http://a.com/~", "http://b.org/~" }

Init ==
  /\ blacklistRules = <<>>
  /\ blCache = <<>>
  /\ blCacheSize = Num(0)
  /\ cache = EmptyCache
  /\ tldReady = FALSE
  /\ ret = [op |-> "init"]
  /\ InitTabs

\* the state after resetBlacklist(list), r what the call did
ResetBlacklistDone(list, r) ==
  /\ blacklistRules' = r.rules
  /\ blCache' = r.blCache
  /\ blCacheSize' = r.blCacheSize
  /\ cache' = NoCalls(cache)
  /\ ret' = [op |-> "resetBlacklist", list |-> list, val |-> r.val]
  /\ UNCHANGED tldReady
  /\ UNCHANGED tabVars

ResetBlacklist(list) ==
  ResetBlacklistDone(list,
    resetBlacklist(list, BlacklistOption, tldReady, blacklistRules, blCache,
                   blCacheSize))

\* the state after testBlacklist(url), r what the call did
TestBlacklistDone(url, r) ==
  /\ blCache' = r.blCache
  /\ blCacheSize' = r.blCacheSize
  /\ cache' = r.cache
  /\ ret' = [op |-> "testBlacklist", url |-> url, val |-> r.val,
             evaluated |-> r.evaluated]
  /\ UNCHANGED <<blacklistRules, tldReady>>
  /\ UNCHANGED tabVars

TestBlacklist(url) ==
  TestBlacklistDone(url,
    testBlacklist(url, blacklistRules, blCache, blCacheSize, NoCalls(cache)))

Next ==
  \/ \E list \in Blacklists : ResetBlacklist(list)
  \/ \E url \in Urls : TestBlacklist(url)

Spec == Init /\ [][Next]_vars

(***************************************************************************)
(* The script applicability test, applied once to each input in each       *)
(* initial state of the Pattern Cache and of the suffix resolver.          *)
(***************************************************************************)
ScriptUrls == { "http://a.com/bad", "http://b.org/", "http://c.uk/x" }

MetaMatchLists == { <<>>, <<"*://a.tld/*">> }
CustomMatchLists == { <<>>, <<"*://b.org/*">> }
MetaIncludeLists == { <<>>, <<"*bad*">> }
MetaExcludeLists == { <<>>, <<"*.com/b*">> }
MetaExcludeMatchLists == { <<>>, <<"*://b.org/*">> }

Scripts ==
  { [custom |-> [origMatch |-> f[1], origInclude |-> f[2],
                 origExclude |-> f[3], origExcludeMatch |-> f[4],
                 match |-> cm, include |-> <<>>, exclude |-> <<>>,
                 excludeMatch |-> <<>>],
     meta |-> [match |-> mm, include |-> mi, exclude |-> me,
               excludeMatch |-> mx]] :
      f \in BOOLEAN \X BOOLEAN \X BOOLEAN \X BOOLEAN,
      cm \in CustomMatchLists, mm \in MetaMatchLists,
      mi \in MetaIncludeLists, me \in MetaExcludeLists,
      mx \in MetaExcludeMatchLists }

\* the Pattern Cache empty, or holding a .tld rule compiled by an earlier
\* testMatch call made before the suffix resolver was ready
WarmCaches ==
  { EmptyCache,
    NoCalls(testMatch("http://a.com/bad", <<"*://a.tld/*">>, EmptyCache,
                      FALSE).cache) }

InitScript ==
  /\ blacklistRules = <<>>
  /\ blCache = <<>>
  /\ blCacheSize = Num(0)
  /\ cache \in WarmCaches
  /\ tldReady \in BOOLEAN
  /\ ret = [op |-> "init"]
  /\ InitTabs

\* the state after testScript(url, script), r what the call did
TestScriptDone(url, script, r) ==
  /\ cache' = r.cache
  /\ ret' = [op |-> "testScript", url |-> url, script |-> script,
             val |-> IF r.threw THEN Thrown ELSE Bool(r.res)]
  /\ UNCHANGED <<blacklistRules, blCache, blCacheSize, tldReady>>
  /\ UNCHANGED tabVars

TestScript(url, script) ==
  /\ ret.op = "init"
  /\ TestScriptDone(url, script,
                    testScript(url, script, NoCalls(cache), tldReady))

NextScript == \E url \in ScriptUrls, script \in Scripts : TestScript(url, script)

SpecScript == InitScript /\ [][NextScript]_vars

(***************************************************************************)
(* The exported rule tests testGlob and testMatch called directly, while   *)
(* the suffix resolver becomes ready and Pattern Cache entries expire.     *)
(***************************************************************************)
MatchUrls == { "http://foo.com/x", "http://www.foo.com/x" }

RuleLists ==
  { <<"*://*.foo.com/*">>,
    <<"*://foo.tld/*">>,
    <<"*://foo.tld/*", "*://*.foo.com/*">> }

\* the number of Pattern Cache entries above which no further call is made
MaxEntries == 2

\* the state after testGlob / testMatch (url, rules), r what the call did
TestRulesDone(op, url, rules, r) ==
  /\ cache' = r.cache
  /\ ret' = [op |-> op, url |-> url, rules |-> rules,
             val |-> IF r.threw THEN Thrown ELSE Bool(r.res)]
  /\ UNCHANGED <<blacklistRules, blCache, blCacheSize, tldReady>>
  /\ UNCHANGED tabVars

TestGlob(url, rules) ==
  /\ Cardinality(DOMAIN cache.entries) <= MaxEntries
  /\ TestRulesDone("testGlob", url, rules,
                   testGlob(url, rules, NoCalls(cache), tldReady))

TestMatch(url, rules) ==
  /\ Cardinality(DOMAIN cache.entries) <= MaxEntries
  /\ TestRulesDone("testMatch", url, rules,
                   testMatch(url, rules, NoCalls(cache), tldReady))

\* tld.initTLD(true) completes: isReady() is true from now on
TldReady ==
  /\ ~tldReady
  /\ tldReady' = TRUE
  /\ cache' = NoCalls(cache)
  /\ ret' = [op |-> "initTLD"]
  /\ UNCHANGED <<blacklistRules, blCache, blCacheSize>>
  /\ UNCHANGED tabVars

\* the Pattern Cache drops an entry
CacheExpire(key) ==
  /\ key \in DOMAIN cache.entries
  /\ cache' = [entries |-> [k \in (DOMAIN cache.entries) \ {key} |->
                              cache.entries[k]],
               calls |-> <<>>]
  /\ ret' = [op |-> "expire", key |-> key]
  /\ UNCHANGED <<blacklistRules, blCache, blCacheSize, tldReady>>
  /\ UNCHANGED tabVars

NextMatch ==
  \/ \E url \in MatchUrls, rules \in RuleLists : TestGlob(url, rules)
  \/ \E url \in MatchUrls, rules \in RuleLists : TestMatch(url, rules)
  \/ TldReady
  \/ \E key \in DOMAIN cache.entries : CacheExpire(key)

SpecMatch == Init /\ [][NextMatch]_vars

(***************************************************************************)
(* testGlob over explicit regular expressions: the memoized regex tests.   *)
(***************************************************************************)
RegExpUrls == { "http://foo.com/x", "view-source:http://foo.com/x" }

RegExpLists == { <<"/foo/">>, <<"/foo:view-source/">> }

NextRegExp ==
  \/ \E url \in RegExpUrls, rules \in RegExpLists : TestGlob(url, rules)
  \/ \E key \in DOMAIN cache.entries : CacheExpire(key)

SpecRegExp == Init /\ [][NextRegExp]_vars

(***************************************************************************)
(* The blacklist reset again and again while the suffix resolver becomes   *)
(* ready: rules with the .tld token, explicit regular expressions, and a   *)
(* malformed one.                                                          *)
(***************************************************************************)
ResetLists ==
  { StrList("foo.tld"),
    StrList("foo.tld\n@exclude /(/"),
    StrList("@exclude /foo/"),
    StrList("@exclude /foo:view-source/") }

ResetUrls == { "http://foo.com/x", "view-source:http://foo.com/x" }

NextReset ==
  \/ \E list \in ResetLists : ResetBlacklist(list)
  \/ \E url \in ResetUrls : TestBlacklist(url)
  \/ TldReady

SpecReset == Init /\ [][NextReset]_vars

(***************************************************************************)
(* The blacklist with rules whose texts are long enough for an eviction    *)
(* pass to stop before the result cache is empty.                          *)
(***************************************************************************)
EvictLists == { StrList("*://b.org/~*\nb.org"), StrList("") }

EvictUrls ==
  { "http://b.org/s", "http://b.org/~", "http://b.org/~s", "http://a.com/~" }

\* by how much the running total exceeds the lengths of the keys held:
\* each entry removed adds its key length less its verdict length
RECURSIVE KeyLengths(_)
KeyLengths(bc) ==
  IF bc = <<>> THEN 0 ELSE Length(bc[1].k) + KeyLengths(Tail(bc))

Drift == IF blCacheSize.nan THEN 0 ELSE blCacheSize.n - KeyLengths(blCache)

\* the drift above which no further lookup is made
MaxDrift == 4

NextEvict ==
  \/ \E list \in EvictLists : ResetBlacklist(list)
  \/ \E url \in EvictUrls : Drift <= MaxDrift /\ TestBlacklist(url)

SpecEvict == Init /\ [][NextEvict]_vars

(***************************************************************************)
(* tabs.js: tabOpen, tabClose and the tabs.onRemoved listener.  A tabOpen  *)
(* call whose src has a tab runs up to `await browser.tabs.create(...)',   *)
(* the browser creates the tab and resolves the promise, and the call      *)
(* resumes later; the browser may deliver onRemoved in between.            *)
(***************************************************************************)
\* tabOpen(..., src) up to the await of browser.tabs.create
TabOpen(openerTabId) ==
  /\ Len(tabOpenCalls) < MaxTabOpens
  /\ tabOpenCalls' =
       Append(tabOpenCalls, [opener |-> openerTabId, pc |-> "create", id |-> 0])
  /\ UNCHANGED <<openers, tabStatus, sent>>
  /\ UNCHANGED testerVars

\* the browser creates the tab of call i and resolves the promise with it
TabsCreate(i, id) ==
  /\ tabOpenCalls[i].pc = "create"
  /\ tabStatus[id] = "none"
  /\ \A other \in TabIds : tabStatus[other] = "none" => id <= other
  /\ tabStatus' = [tabStatus EXCEPT ![id] = "open"]
  /\ tabOpenCalls' = [tabOpenCalls EXCEPT ![i].pc = "resume", ![i].id = id]
  /\ UNCHANGED <<openers, sent>>
  /\ UNCHANGED testerVars

\* tabOpen after the await: openers[id] = openerTabId; return { id }
TabOpenResume(i) ==
  /\ tabOpenCalls[i].pc = "resume"
  /\ openers' = [id \in (DOMAIN openers) \cup {tabOpenCalls[i].id} |->
                   IF id = tabOpenCalls[i].id THEN tabOpenCalls[i].opener
                   ELSE openers[id]]
  /\ tabOpenCalls' = [tabOpenCalls EXCEPT ![i].pc = "done"]
  /\ UNCHANGED <<tabStatus, sent>>
  /\ UNCHANGED testerVars

\* tabClose({ id }): browser.tabs.remove(tabId)
TabClose(tabId) ==
  /\ tabStatus[tabId] = "open"
  /\ tabStatus' = [tabStatus EXCEPT ![tabId] = "closing"]
  /\ UNCHANGED <<openers, tabOpenCalls, sent>>
  /\ UNCHANGED testerVars

\* the tab is removed, by tabClose or by the user, and the onRemoved
\* listener runs
OnRemoved(id) ==
  /\ tabStatus[id] \in {"open", "closing"}
  /\ tabStatus' = [tabStatus EXCEPT ![id] = "removed"]
  /\ IF id \in DOMAIN openers
       THEN /\ sent' = Append(sent, [to |-> openers[id], cmd |-> "TabClosed",
                                     data |-> id])
            /\ openers' = [k \in (DOMAIN openers) \ {id} |-> openers[k]]
       ELSE UNCHANGED <<openers, sent>>
  /\ UNCHANGED tabOpenCalls
  /\ UNCHANGED testerVars

NextTabs ==
  \/ \E openerTabId \in OpenerIds : TabOpen(openerTabId)
  \/ \E i \in 1..Len(tabOpenCalls), id \in TabIds : TabsCreate(i, id)
  \/ \E i \in 1..Len(tabOpenCalls) : TabOpenResume(i)
  \/ \E tabId \in TabIds : TabClose(tabId)
  \/ \E id \in TabIds : OnRemoved(id)

SpecTabs == Init /\ [][NextTabs]_vars

(***************************************************************************)
(* Properties.                                                             *)
(***************************************************************************)
RuleTexts(rules) == [i \in 1..Len(rules) |-> rules[i].text]

\* the tester of the rule accepts url, in the Pattern Cache state c
Accepts(rule, url, c) ==
  LET r == Test(rule.test, url, c) IN ~r.threw /\ r.res

Min(S) == CHOOSE i \in S : \A j \in S : i <= j

Mode(text) == IF StartsWith(text, "@") THEN FirstToken(text) ELSE ""

Body(text) ==
  IF StartsWith(text, "@") THEN Trim(SliceFrom(text, Len(Mode(text)) + 1))
  ELSE text

RECURSIVE SumKeyLengths(_)
SumKeyLengths(bc) ==
  IF bc = <<>> THEN 0 ELSE Length(bc[1].k) + SumKeyLengths(Tail(bc))

\* C1: testBlacklist(u) is decided by the first rule, in specification
\* order, whose tester accepts u: that rule's text when it rejects, false
\* when it does not.
C1_FirstMatchWins ==
  [][ret'.op = "testBlacklist" =>
       LET A == { i \in 1..Len(blacklistRules) :
                    Accepts(blacklistRules[i], ret'.url, cache) }
       IN A # {} =>
            ret'.val = (IF blacklistRules[Min(A)].reject
                          THEN Str(blacklistRules[Min(A)].text)
                          ELSE Bool(FALSE))]_vars

\* C2: testBlacklist returns a rule text or false, and false whenever no
\* rule accepts the URL, the first call after a reset included.
C2_ReturnsTextOrFalse ==
  [][ret'.op = "testBlacklist" =>
       /\ ret'.val.type \in {"string", "boolean"}
       /\ (\A i \in 1..Len(blacklistRules) :
             ~Accepts(blacklistRules[i], ret'.url, cache))
            => ret'.val = Bool(FALSE)]_vars

\* C3: of two successive testBlacklist calls with the same URL, the second
\* returns the value the first returned, and does not evaluate the rules.
C3_SecondCallIdentical ==
  [][(/\ ret.op = "testBlacklist"
      /\ ret'.op = "testBlacklist"
      /\ ret'.url = ret.url)
       => (ret'.val = ret.val /\ ~ret'.evaluated)]_vars

\* C4: whenever testBlacklist returns, the key lengths held in the result
\* cache sum to at most MAX_BL_CACHE_LENGTH, and an insertion that pushed
\* the sum above the maximum leaves it at or below 75% of the maximum.
C4_CacheWithinBudget ==
  [][ret'.op = "testBlacklist" =>
       /\ SumKeyLengths(blCache') <= MAX_BL_CACHE_LENGTH
       /\ (/\ ret'.evaluated
           /\ ret'.val # Thrown
           /\ SumKeyLengths(blCache) + Length(ret'.url) > MAX_BL_CACHE_LENGTH)
            => 4 * SumKeyLengths(blCache') <= 3 * MAX_BL_CACHE_LENGTH]_vars

\* C5: every resetBlacklist call that returns normally leaves the result
\* cache empty and its running total 0, and every value testBlacklist then
\* returns is the verdict of the current rule list.
C5_ResetClearsCache ==
  [][/\ (ret'.op = "resetBlacklist" /\ ret'.val = Undefined)
          => (blCache' = <<>> /\ blCacheSize' = Num(0))
     /\ (ret'.op = "testBlacklist" /\ ret'.val # Thrown)
          => LET A == { i \in 1..Len(blacklistRules') :
                          Accepts(blacklistRules'[i], ret'.url, cache) }
             IN OrFalse(ret'.val) =
                  (IF A # {} /\ blacklistRules'[Min(A)].reject
                     THEN Str(blacklistRules'[Min(A)].text)
                     ELSE Bool(FALSE))]_vars

\* a normal reset that follows earlier lookups and installs rules
C5_Witness ==
  /\ ret.op = "resetBlacklist"
  /\ ret.val = Undefined
  /\ blacklistRules # <<>>
  /\ cache # EmptyCache
  /\ blCache = <<>>

\* C6: an `@include' line is a rule with reject = false tested by the glob
\* compiled from its body: testBlacklist returns false when the first
\* accepting rule is an `@include' rule, and goes on to the later rules
\* when the glob does not accept the URL.
C6_IncludeRuleWhitelists ==
  [][ret'.op = "testBlacklist" =>
       LET IntendedAccepts(rule) ==
             IF Mode(rule.text) = "@include"
               THEN Test(autoReg(Body(rule.text), tldReady), ret'.url,
                         cache).res
               ELSE Accepts(rule, ret'.url, cache)
           A == { i \in 1..Len(blacklistRules) :
                    IntendedAccepts(blacklistRules[i]) }
       IN /\ (A # {} /\ Mode(blacklistRules[Min(A)].text) = "@include")
               => ret'.val = Bool(FALSE)
          /\ (A # {} /\ Mode(blacklistRules[Min(A)].text) # "@include")
               => OrFalse(ret'.val) =
                    OrFalse(Verdict(blacklistRules, Min(A)))
          /\ ret'.val # Thrown]_vars

C7_Rules == <<"@exclude http://a.com/*", "http://a.com/bad">>

\* C7 as stated: with the rules of '@exclude http://a.com/*\nhttp://a.com/bad'
\* testBlacklist('http://a.com/bad') returns false.
C7_Original ==
  (/\ ret.op = "testBlacklist"
   /\ ret.url = "http://a.com/bad"
   /\ RuleTexts(blacklistRules) = C7_Rules)
    => ret.val = Bool(FALSE)

\* C7 amended: with those rules testBlacklist('http://a.com/bad') returns
\* the text of the first rule, '@exclude http://a.com/*', which matches
\* first and is a rejecting rule.
C7_ExcludeRuleRejects ==
  (/\ ret.op = "testBlacklist"
   /\ ret.url = "http://a.com/bad"
   /\ RuleTexts(blacklistRules) = C7_Rules)
    => ret.val = Str("@exclude http://a.com/*")

C7_Witness ==
  /\ ret.op = "testBlacklist"
  /\ ret.url = "http://a.com/bad"
  /\ RuleTexts(blacklistRules) = C7_Rules
  /\ ret.val.type = "string"

\* the trimmed lines that are not empty and do not start with `#'
ExpectedTexts(lines) ==
  LET trimmed == [i \in 1..Len(lines) |-> Trim(lines[i])]
      Keep(t) == t # "" /\ Head(t) # "#"
  IN SelectSeq(trimmed, Keep)

\* C8: resetBlacklist, given a string or a legacy array, produces exactly
\* one rule per line that is non-empty after trimming and does not start
\* with `#', in the order of those lines, with the trimmed line as text.
C8_OneRulePerLine ==
  (ret.op = "resetBlacklist" /\ ret.val = Undefined) =>
    LET src == IF ret.list.kind = "null" THEN BlacklistOption ELSE ret.list
        lines == IF src.kind = "array" THEN src.a ELSE SplitLines(src.s)
    IN RuleTexts(blacklistRules) = ExpectedTexts(lines)

\* a reset from an array with a comment, a blank and padded lines
C8_Witness ==
  /\ ret.op = "resetBlacklist"
  /\ ret.val = Undefined
  /\ ret.list.kind = "array"
  /\ Len(blacklistRules) = 2
  /\ Len(ret.list.a) = 4
  /\ blacklistRules[1].text = "@match  *://a.com/~*"

\* the effective list of a category
Eff(flag, metaList, customList) ==
  IF flag THEN metaList \o customList ELSE customList

\* url satisfies some rule of the list, each rule tested on its own
AnyMatch(url, rules, c, ready) ==
  \E i \in 1..Len(rules) : testMatch(url, <<rules[i]>>, c, ready).res

AnyGlob(url, rules, c, ready) ==
  \E i \in 1..Len(rules) : testGlob(url, <<rules[i]>>, c, ready).res

Excluded(url, script, c, ready) ==
  \/ AnyMatch(url, Eff(script.custom.origExcludeMatch,
                       script.meta.excludeMatch,
                       script.custom.excludeMatch), c, ready)
  \/ AnyGlob(url, Eff(script.custom.origExclude, script.meta.exclude,
                      script.custom.exclude), c, ready)

\* C9: testScript is true exactly when the effective match and include
\* lists are both empty or the url satisfies one of their rules, and the
\* url satisfies no effective exclude-match or exclude rule.
C9_ScriptDecision ==
  [][ret'.op = "testScript" =>
       LET sc == ret'.script
           u == ret'.url
           mat == Eff(sc.custom.origMatch, sc.meta.match, sc.custom.match)
           inc == Eff(sc.custom.origInclude, sc.meta.include,
                      sc.custom.include)
       IN ret'.val =
            Bool(/\ \/ (mat = <<>> /\ inc = <<>>)
                    \/ AnyMatch(u, mat, cache, tldReady)
                    \/ AnyGlob(u, inc, cache, tldReady)
                 /\ ~Excluded(u, sc, cache, tldReady))]_vars

\* an included url vetoed by an exclude rule
C9_Witness ==
  /\ ret.op = "testScript"
  /\ ret.url = "http://a.com/bad"
  /\ ret.script.custom.origInclude
  /\ ret.script.meta.include = <<"*bad*">>
  /\ ret.script.custom.origExclude
  /\ ret.script.meta.exclude = <<"*.com/b*">>
  /\ ret.val = Bool(FALSE)

WithMeta(script, cat, list) ==
  [script EXCEPT !.meta = [script.meta EXCEPT ![cat] = list]]

WithFlag(script, flag, b) ==
  [script EXCEPT !.custom = [script.custom EXCEPT ![flag] = b]]

Categories ==
  { <<"match", "origMatch", MetaMatchLists>>,
    <<"include", "origInclude", MetaIncludeLists>>,
    <<"exclude", "origExclude", MetaExcludeLists>>,
    <<"excludeMatch", "origExcludeMatch", MetaExcludeMatchLists>> }

\* C10: per category, the metadata list takes part only if the origin flag
\* of that category is set: with the flag unset the result is the same for
\* every metadata list of the category, a flag changes nothing when its
\* category has no metadata rules, and a script with no custom match or
\* include rules and both of these flags unset matches every url that is
\* not excluded.
C10_MetaOnlyWhenFlagged ==
  [][ret'.op = "testScript" =>
       LET sc == ret'.script
           u == ret'.url
           Res(x) == LET r == testScript(u, x, cache, tldReady) IN
                     IF r.threw THEN Thrown ELSE Bool(r.res)
       IN /\ \A cat \in Categories :
               /\ ~sc.custom[cat[2]] =>
                    \A list \in cat[3] :
                      Res(WithMeta(sc, cat[1], list)) = ret'.val
               /\ Res(WithFlag(WithMeta(sc, cat[1], <<>>), cat[2], TRUE))
                    = Res(WithFlag(WithMeta(sc, cat[1], <<>>), cat[2], FALSE))
          /\ (/\ ~sc.custom.origMatch
              /\ ~sc.custom.origInclude
              /\ sc.custom.match = <<>>
              /\ sc.custom.include = <<>>)
               => ret'.val = Bool(~Excluded(u, sc, cache, tldReady))]_vars

\* metadata match and include rules that the url does not satisfy, the
\* flags unset: the script still applies
C10_Witness ==
  /\ ret.op = "testScript"
  /\ ret.url = "http://b.org/"
  /\ ~ret.script.custom.origMatch
  /\ ~ret.script.custom.origInclude
  /\ ret.script.custom.match = <<>>
  /\ ret.script.meta.match = <<"*://a.tld/*">>
  /\ ret.script.meta.include = <<"*bad*">>
  /\ ret.val = Bool(TRUE)

WildRule == "*://*.foo.com/*"
TldRule == "*://foo.tld/*"

\* C11 as stated: testMatch with the rule *://*.foo.com/* is false for
\* http://foo.com/x and true for http://www.foo.com/x.
C11_Original ==
  (ret.op = "testMatch" /\ ret.rules = <<WildRule>>)
    => ret.val = Bool(ret.url = "http://www.foo.com/x")

HostSamples ==
  { "foo.com", "www.foo.com", "a.b.foo.com", "xfoo.com", "foo.com.org",
    "com" }

\* C11 amended: the `*.' host wildcard stands for zero or more leading
\* labels: testMatch with the rule *://*.foo.com/* is true for
\* http://foo.com/x as well as for http://www.foo.com/x, and the host rule
\* *.foo.com accepts exactly the bare host foo.com and the hosts L.foo.com.
C11_WildcardAcceptsBareHost ==
  ret.op = "testMatch" =>
    /\ ret.rules = <<WildRule>> => ret.val = Bool(TRUE)
    /\ \A h \in HostSamples :
         TestHost("*.foo.com", hostMatcher("*.foo.com", tldReady), h)
           = (h = "foo.com" \/ EndsWith(h, ".foo.com"))

\* the bare host tested against the wildcard rule
C11_Witness ==
  /\ ret.op = "testMatch"
  /\ ret.rules = <<WildRule>>
  /\ ret.url = "http://foo.com/x"
  /\ ret.val = Bool(TRUE)

TldKeys == { "re:" \o TldRule, "match:" \o TldRule }

\* the compiled tester under key k is TLD-aware: it accepts foo.com, which
\* the literal text foo.tld does not
TldAware(c, k) ==
  Test(CacheValue(c, k).tester, "http://foo.com/x", EmptyCache).res

CallOf(k) == IF StartsWith(k, "re:") THEN "testGlob" ELSE "testMatch"

\* C12: readiness is read when a .tld rule is compiled and at no other
\* time: an entry compiled by a call is TLD-aware exactly when the
\* resolver is ready at that call, an entry that stays in the Pattern
\* Cache keeps its behaviour whatever happens to readiness, and a call with
\* the rule answers as its entry behaves: literal text accepts neither
\* url, the TLD-aware tester accepts http://foo.com/x only.
C12_ReadinessReadAtCompile ==
  [][\A k \in TldKeys :
       /\ (k \notin DOMAIN cache.entries /\ k \in DOMAIN cache'.entries)
            => TldAware(cache', k) = tldReady
       /\ (k \in DOMAIN cache.entries /\ k \in DOMAIN cache'.entries)
            => TldAware(cache', k) = TldAware(cache, k)
       /\ (ret'.op = CallOf(k) /\ ret'.rules = <<TldRule>>)
            => ret'.val = Bool(/\ TldAware(cache', k)
                               /\ ret'.url = "http://foo.com/x")]_vars

\* the resolver is ready and the rule, compiled before, is still literal
C12_Witness ==
  /\ tldReady
  /\ ret.op = "testMatch"
  /\ ret.rules = <<TldRule>>
  /\ ret.url = "http://foo.com/x"
  /\ ret.val = Bool(FALSE)
  /\ cache.calls[2] = <<"hit", "match:" \o TldRule>>

IsTesterKey(key) == ~StartsWith(key, "re-test:")

\* the calls made on the Pattern Cache with compiled-tester keys
TesterCalls(c) ==
  LET Keep(e) == IsTesterKey(e[2]) IN SelectSeq(c.calls, Keep)

\* get, then hit for a key present and put for a key absent, for the
\* rules i..m in order
RECURSIVE ProtocolCalls(_, _, _, _, _)
ProtocolCalls(prefix, rules, i, m, present) ==
  IF i > m THEN <<>>
  ELSE << <<"get", prefix \o rules[i]>>,
          <<IF prefix \o rules[i] \in present THEN "hit" ELSE "put",
            prefix \o rules[i]>> >>
       \o ProtocolCalls(prefix, rules, i + 1, m,
                        present \cup {prefix \o rules[i]})

\* C16: a testGlob / testMatch call examines the rules in list order up to
\* the first one whose tester accepts the url; for each it gets its own
\* key ("re:" / "match:" before the rule text) and then hits it when it was
\* present, puts it when it was absent; a compiled tester that stays in the
\* cache is never replaced.
C16_CacheProtocol ==
  [][/\ ret'.op \in {"testGlob", "testMatch"} =>
          LET prefix == IF ret'.op = "testGlob" THEN "re:" ELSE "match:"
              rules == ret'.rules
              tc == TesterCalls(cache')
              m == Len(tc) \div 2
          IN /\ m \in 1..Len(rules)
             /\ tc = ProtocolCalls(prefix, rules, 1, m, DOMAIN cache.entries)
             /\ \A i \in 1..m :
                  Test(cache'.entries[prefix \o rules[i]].tester, ret'.url,
                       cache').res
                    = (i = m /\ ret'.val = Bool(TRUE))
             /\ ret'.val = Bool(FALSE) => m = Len(rules)
     /\ \A k \in (DOMAIN cache.entries) \cap (DOMAIN cache'.entries) :
          IsTesterKey(k) => cache'.entries[k] = cache.entries[k]]_vars

\* a call that finds its first rule cached, under the glob key only, and
\* compiles its second
C16_Witness ==
  /\ ret.op = "testGlob"
  /\ ret.rules = <<TldRule, WildRule>>
  /\ TesterCalls(cache) =
       << <<"get", "re:" \o TldRule>>, <<"hit", "re:" \o TldRule>>,
          <<"get", "re:" \o WildRule>>, <<"put", "re:" \o WildRule>> >>
  /\ "match:" \o TldRule \in DOMAIN cache.entries
  /\ cache.entries["match:" \o TldRule] # cache.entries["re:" \o TldRule]

\* C13 as stated: a reset whose specification holds a rule text that the
\* previous rule list held reuses the tester compiled for it before.
C13_Original ==
  [][(ret'.op = "resetBlacklist" /\ ret'.val = Undefined) =>
       \A i \in 1..Len(blacklistRules'), j \in 1..Len(blacklistRules) :
         blacklistRules'[i].text = blacklistRules[j].text
           => blacklistRules'[i].test = blacklistRules[j].test]_vars

\* C13 amended: resetBlacklist compiles every rule itself, under the
\* readiness at that reset, and makes no call on the Pattern Cache: the
\* rule foo.tld is literal after a reset made before the resolver is ready
\* and accepts http://foo.com/x after a reset made once it is ready.
C13_ResetRecompiles ==
  [][(ret'.op = "resetBlacklist" /\ ret'.val = Undefined) =>
       /\ cache'.entries = cache.entries
       /\ cache'.calls = <<>>
       /\ \A i \in 1..Len(blacklistRules') :
            /\ blacklistRules'[i].test =
                 RuleTester(Mode(blacklistRules'[i].text),
                            Body(blacklistRules'[i].text), tldReady)
            /\ blacklistRules'[i].text = "foo.tld" =>
                 Accepts(blacklistRules'[i], "http://foo.com/x", EmptyCache)
                   = tldReady]_vars

\* the .tld rule reset once the resolver is ready, the url now rejected
C13_Witness ==
  /\ tldReady
  /\ ret.op = "testBlacklist"
  /\ ret.url = "http://foo.com/x"
  /\ RuleTexts(blacklistRules) = <<"foo.tld">>
  /\ ret.val = Str("foo.tld")

RuleListVerdict(rules, url) ==
  LET A == { i \in 1..Len(rules) : Accepts(rules[i], url, EmptyCache) } IN
  IF A # {} /\ rules[Min(A)].reject THEN Str(rules[Min(A)].text)
  ELSE Bool(FALSE)

\* C18: every entry of the result cache holds the verdict of the current
\* rule list for its url.
C18_CacheCoherent ==
  \A i \in 1..Len(blCache) :
    blCache[i].v = RuleListVerdict(blacklistRules, blCache[i].k)

\* C14: in every reachable state blCacheSize is a number, the sum of the
\* lengths of the keys held in the result cache.
C14_SizeIsKeySum ==
  /\ ~blCacheSize.nan
  /\ blCacheSize.n = SumKeyLengths(blCache)

\* the running total once the first j entries of all are removed
RECURSIVE RunningTotal(_, _, _)
RunningTotal(all, size, j) ==
  IF j = 0 THEN size
  ELSE Sub(RunningTotal(all, size, j - 1), ValueLength(all[j].v))

BelowThreeQuarters(t) == ~t.nan /\ 4 * t.n < 3 * MAX_BL_CACHE_LENGTH

\* C15: the entries an insertion removes are the oldest ones, the others
\* stay in their order; none is removed unless the running total exceeds
\* the maximum, and the pass ends with the first removal that leaves the
\* running total below 75% of the maximum, or with the cache empty.
C15_OldestFirst ==
  [][(ret'.op = "testBlacklist" /\ ret'.evaluated /\ ret'.val # Thrown) =>
       LET all == Append(blCache, [k |-> ret'.url, v |-> OrFalse(ret'.val)])
           size == IF blCacheSize.nan THEN NaN
                   ELSE Num(blCacheSize.n + Length(ret'.url))
           n == Len(all) - Len(blCache')
       IN /\ n \in 0..Len(all)
          /\ blCache' = SubSeq(all, n + 1, Len(all))
          /\ blCacheSize' = RunningTotal(all, size, n)
          /\ n > 0 <=> (~size.nan /\ size.n > MAX_BL_CACHE_LENGTH)
          /\ \A j \in 1..(n - 1) :
               ~BelowThreeQuarters(RunningTotal(all, size, j))
          /\ (n > 0 /\ n < Len(all)) =>
               BelowThreeQuarters(RunningTotal(all, size, n))]_vars

\* a pass that removed the two oldest entries and stopped before the
\* newest: the total is no longer the length of the one key left
C15_Witness ==
  /\ ret.op = "testBlacklist"
  /\ ret.url = "http://b.org/~s"
  /\ Len(blCache) = 1
  /\ blCache[1].k = "http://b.org/~s"
  /\ ~blCacheSize.nan
  /\ blCacheSize.n = Length("http://b.org/~s") + Length("http://b.org/s")
                       + Length("http://b.org/~")
                       - Length("b.org") - Length("*://b.org/~*")

\* C19: a testGlob call over explicit regular expressions returns what it
\* returns with an empty Pattern Cache: no earlier regex test changes the
\* outcome of a later one.
C19_HistoryIndependent ==
  [][ret'.op = "testGlob" =>
       ret'.val =
         Bool(testGlob(ret'.url, ret'.rules, EmptyCache, tldReady).res)]_vars

\* the TabClosed messages sent to the opener for the tab
TabClosedSent(opener, id) ==
  { k \in 1..Len(sent) :
      sent[k] = [to |-> opener, cmd |-> "TabClosed", data |-> id] }

\* C20: once a tab created by tabOpen has been removed and every tabOpen
\* call has completed, its opener has been sent exactly one TabClosed
\* message with the tab's id and openers holds no entry for the tab.
C20_OpenerNotifiedOnce ==
  (\A j \in 1..Len(tabOpenCalls) : tabOpenCalls[j].pc = "done") =>
    \A i \in 1..Len(tabOpenCalls) :
      tabStatus[tabOpenCalls[i].id] = "removed" =>
        /\ Cardinality(TabClosedSent(tabOpenCalls[i].opener,
                                     tabOpenCalls[i].id)) = 1
        /\ tabOpenCalls[i].id \notin DOMAIN openers

=============================================================================
